---- MODULE Spec2Model ----
(***************************************************************************)
(* Model of sqlglot.el.py, the command-line adapter between the editor and *)
(* the sqlglot library: module start-up (import of the library), argument  *)
(* parsing, dispatch to the four subcommands, SQL resolution, and          *)
(* transpile_sql with its two exception handlers.                          *)
(*                                                                         *)
(* Text is a sequence of string tokens read as their concatenation.  The   *)
(* SQL given by the user is a sequence of single characters; the fixed     *)
(* literals of the program are tokens ("Error: " is always its own token). *)
(* An optional text                                                        *)
(* (args.sql, the local sql before its assignment) is <<>> when it is None *)
(* and <<t>> when it is the text t.                                        *)
(***************************************************************************)
EXTENDS Integers, Sequences, FiniteSets, TLC

\* ---------------------------------------------------------------- bounds
MaxSqlLen == 2
MaxStmts == 2

\* ------------------------------------------------------------ input sets
None == "<None>"
Unbound == "<unbound>"

Chars == {" ", "\n", "x"}

RECURSIVE TextsOfLen(_)
TextsOfLen(n) ==
    IF n = 0 THEN {<<>>}
    ELSE {<<c>> \o t : c \in Chars, t \in TextsOfLen(n - 1)}

Texts == UNION {TextsOfLen(n) : n \in 0..MaxSqlLen}

\* the content of sqlglot.dialects.MODULE_BY_DIALECT: name -> handle
Registry == ("mysql" :> "sqlglot.dialects.mysql") @@ ("postgres" :> "sqlglot.dialects.postgres")

ReadNames == {None, "postgres", "nosuch"}
WriteNames == {None, "mysql", "bogus"}

\* total order of the strings used as dialect names (Python str comparison)
NameOrder == <<"bogus", "mysql", "nosuch", "postgres">>

\* what sqlglot.__version__ may be (None: the attribute is missing)
Versions == {None, "27.0.0"}

\* statements the library may return
Statements == {<<>>, <<"SELECT 1">>, <<"SELECT 1", "\n">>}

RECURSIVE StmtSeqsOfLen(_)
StmtSeqsOfLen(n) ==
    IF n = 0 THEN {<<>>}
    ELSE {<<s>> \o r : s \in Statements, r \in StmtSeqsOfLen(n - 1)}

StmtSeqs == UNION {StmtSeqsOfLen(n) : n \in 0..MaxStmts}

\* exceptions the library's transpile may raise: type and single argument
ExcTypes == {"KeyError", "ParseError"}
ExcArgs == {<<"k">>, <<"Invalid expression.", "\n", "  SELEC T 1">>}

NoOutcome == [kind |-> "none"]

LibOutcomes ==
    {[kind |-> "return", stmts |-> r] : r \in StmtSeqs}
    \cup {[kind |-> "raise", type |-> t, arg |-> a] : t \in ExcTypes, a \in ExcArgs}

\* the argument vectors: the namespace argparse builds from them, or the
\* two ways parse_args itself ends the process ("-h", a rejected vector)
NoOptions(c) == [command |-> c, read |-> None, write |-> None, identify |-> FALSE, sql |-> <<>>]

ArgVectors ==
    {NoOptions(c) : c \in {None, "version", "dialects", "-h", "<invalid>"}}
    \cup [command : {"transpile", "format"}, read : ReadNames, write : WriteNames,
          identify : BOOLEAN, sql : {<<>>} \cup {<<t>> : t \in Texts}]

NoArgs == NoOptions(Unbound)

\* ------------------------------------------------------------- the state
VARIABLES
    libAvailable,   \* input: can "import sqlglot" succeed
    libVersion,     \* input: sqlglot.__version__
    argv,           \* input: the process arguments
    stdin,          \* input: the text on standard input
    pc,             \* position in the script
    DIALECTS_MAP,   \* the module global
    args,           \* main: the parsed namespace
    sql,            \* main: the resolved SQL (optional text)
    read_dialect,   \* transpile_sql: parameter, rebound to the handle
    write_dialect,  \* transpile_sql: parameter, rebound to the handle
    result,         \* transpile_sql: what sqlglot.transpile returned
    calls,          \* keyword arguments of every sqlglot.transpile call
    libOutcome,     \* what the sqlglot.transpile call did
    stdinRead,      \* sys.stdin.read() was called
    stdout,
    stderr,
    exitCode        \* -1 while running

vars == <<libAvailable, libVersion, argv, stdin, pc, DIALECTS_MAP, args, sql,
          read_dialect, write_dialect, result, calls, libOutcome, stdinRead,
          stdout, stderr, exitCode>>

inputs == <<libAvailable, libVersion, argv, stdin>>

\* ------------------------------------------------------- pure operations
IsSpace(c) == c \in {" ", "\t", "\n", "\r", "\f"}

\* str.strip(): drop leading and trailing whitespace
RECURSIVE LStrip(_)
LStrip(t) == IF t # <<>> /\ IsSpace(Head(t)) THEN LStrip(Tail(t)) ELSE t

RECURSIVE RStrip(_)
RStrip(t) ==
    IF t # <<>> /\ IsSpace(t[Len(t)]) THEN RStrip(SubSeq(t, 1, Len(t) - 1)) ELSE t

\* variant: no stripping, only the empty text counts as blank
strip_NotStripped(t) == t

strip(t) == RStrip(LStrip(t))

\* truth value of an Optional[str]: None and "" are false
Truthy(opt) == opt # <<>> /\ opt[1] # <<>>

\* print(x): the text followed by the newline print adds
PrintLine(t) == t \o <<"\n">>

\* variant: the result printed with print's default end
PrintNoEnd_DefaultEnd(t) == t \o <<"\n">>

\* print(x, end=""): the text alone
PrintNoEnd(t) == t

\* str(e) of an exception with one argument: KeyError shows the repr of its key
ExcStr(e) == IF e.type = "KeyError" THEN <<"'">> \o e.arg \o <<"'">> ELSE e.arg

InstallMessage ==
    <<"Error: ", "sqlglot package not installed. Run: python -m pip install sqlglot">>

HelpText == <<"usage: sqlglot.el.py [-h] {transpile,format,version,dialects} ...">>

ParserError == <<"usage: sqlglot.el.py [-h] {transpile,format,version,dialects} ...", "\n",
                 "sqlglot.el.py: error: ">>

NoSqlMessage == <<"Error: ", "No SQL provided">>

get_version == IF libVersion = None THEN "unknown" ELSE libVersion

list_dialects == SelectSeq(NameOrder, LAMBDA n : n \in DOMAIN DIALECTS_MAP)

\* json.dumps(list of str, indent=2)
RECURSIVE JsonItems(_)
JsonItems(l) ==
    IF l = <<>> THEN <<>>
    ELSE <<"\n", "  ", "\"", Head(l), "\"">>
         \o (IF Len(l) > 1 THEN <<",">> ELSE <<>>) \o JsonItems(Tail(l))

JsonDumps(l) == IF l = <<>> THEN <<"[]">> ELSE <<"[">> \o JsonItems(l) \o <<"\n", "]">>

\* the two except clauses of transpile_sql: the exception that leaves it
Reraise(e, pretty) ==
    IF e.type = "KeyError"
    THEN [type |-> "RuntimeError", arg |-> <<"Unknown dialect: ">> \o ExcStr(e)]
    ELSE [type |-> "RuntimeError",
          arg |-> <<"SQL ">> \o <<IF pretty THEN "formatting" ELSE "transpilation">>
                  \o <<" failed: ">> \o ExcStr(e)]

\* variant: the message printed without the "Error: " prefix
ErrorLine_NoPrefix(e) == PrintLine(ExcStr(e))

\* the except clause of main: the line written to standard error
ErrorLine(e) == PrintLine(<<"Error: ">> \o ExcStr(e))

Pretty == args.command = "format"

\* an exception raised inside the try block of transpile_sql ends the process
\* through both handlers
RaiseInTranspile(e) ==
    /\ stderr' = stderr \o ErrorLine(Reraise(e, Pretty))
    /\ exitCode' = 1
    /\ pc' = "done"

\* ------------------------------------------------------------------ Init
Init ==
    /\ libAvailable \in BOOLEAN
    /\ libVersion \in Versions
    /\ argv \in ArgVectors
    /\ stdin \in Texts
    /\ pc = "import"
    /\ DIALECTS_MAP = <<>>
    /\ args = NoArgs
    /\ sql = <<>>
    /\ read_dialect = Unbound
    /\ write_dialect = Unbound
    /\ result = <<>>
    /\ calls = <<>>
    /\ libOutcome = NoOutcome
    /\ stdinRead = FALSE
    /\ stdout = <<>>
    /\ stderr = <<>>
    /\ exitCode = -1

\* --------------------------------------------------------------- actions
\* variant: the ImportError is reported but the script goes on to main
ImportSqlglot_NoExit ==
    /\ pc = "import"
    /\ IF libAvailable
       THEN /\ DIALECTS_MAP' = Registry
            /\ UNCHANGED stderr
       ELSE /\ stderr' = stderr \o PrintLine(InstallMessage)
            /\ UNCHANGED DIALECTS_MAP
    /\ pc' = "main"
    /\ UNCHANGED <<inputs, args, sql, read_dialect, write_dialect, result, calls,
                   libOutcome, stdinRead, stdout, exitCode>>

\* module level: import sqlglot, bind DIALECTS_MAP, or report and exit
ImportSqlglot ==
    /\ pc = "import"
    /\ IF libAvailable
       THEN /\ DIALECTS_MAP' = Registry
            /\ pc' = "main"
            /\ UNCHANGED <<stderr, exitCode>>
       ELSE /\ stderr' = stderr \o PrintLine(InstallMessage)
            /\ exitCode' = 1
            /\ pc' = "done"
            /\ UNCHANGED DIALECTS_MAP
    /\ UNCHANGED <<inputs, args, sql, read_dialect, write_dialect, result, calls,
                   libOutcome, stdinRead, stdout>>

\* main: build the parser and parse the arguments
ParseArgs ==
    /\ pc = "main"
    /\ IF argv.command = "<invalid>"
       THEN /\ stderr' = stderr \o PrintLine(ParserError)
            /\ exitCode' = 2
            /\ pc' = "done"
            /\ UNCHANGED <<args, stdout>>
       ELSE IF argv.command = "-h"
       THEN /\ stdout' = stdout \o PrintLine(HelpText)
            /\ exitCode' = 0
            /\ pc' = "done"
            /\ UNCHANGED <<args, stderr>>
       ELSE /\ args' = argv
            /\ pc' = "dispatch"
            /\ UNCHANGED <<stdout, stderr, exitCode>>
    /\ UNCHANGED <<inputs, DIALECTS_MAP, sql, read_dialect, write_dialect, result,
                   calls, libOutcome, stdinRead>>

\* main: no subcommand
NoCommand ==
    /\ pc = "dispatch"
    /\ args.command = None
    /\ stdout' = stdout \o PrintLine(HelpText)
    /\ exitCode' = 1
    /\ pc' = "done"
    /\ UNCHANGED <<inputs, DIALECTS_MAP, args, sql, read_dialect, write_dialect,
                   result, calls, libOutcome, stdinRead, stderr>>

\* main: version
Version ==
    /\ pc = "dispatch"
    /\ args.command = "version"
    /\ stdout' = stdout \o PrintLine(<<get_version>>)
    /\ exitCode' = 0
    /\ pc' = "done"
    /\ UNCHANGED <<inputs, DIALECTS_MAP, args, sql, read_dialect, write_dialect,
                   result, calls, libOutcome, stdinRead, stderr>>

\* main: dialects
Dialects ==
    /\ pc = "dispatch"
    /\ args.command = "dialects"
    /\ stdout' = stdout \o PrintLine(JsonDumps(list_dialects))
    /\ exitCode' = 0
    /\ pc' = "done"
    /\ UNCHANGED <<inputs, DIALECTS_MAP, args, sql, read_dialect, write_dialect,
                   result, calls, libOutcome, stdinRead, stderr>>

\* main: sql = args.sql or sys.stdin.read()
ResolveSql ==
    /\ pc = "dispatch"
    /\ args.command \in {"transpile", "format"}
    /\ IF Truthy(args.sql)
       THEN /\ sql' = args.sql
            /\ UNCHANGED stdinRead
       ELSE /\ sql' = <<stdin>>
            /\ stdinRead' = TRUE
    /\ pc' = "check_sql"
    /\ UNCHANGED <<inputs, DIALECTS_MAP, args, read_dialect, write_dialect, result,
                   calls, libOutcome, stdout, stderr, exitCode>>

\* main: the blank check, then the call of transpile_sql binds its parameters
CheckSql ==
    /\ pc = "check_sql"
    /\ IF strip(sql[1]) = <<>>
       THEN /\ stderr' = stderr \o PrintLine(NoSqlMessage)
            /\ exitCode' = 1
            /\ pc' = "done"
            /\ UNCHANGED <<read_dialect, write_dialect>>
       ELSE /\ read_dialect' = args.read
            /\ write_dialect' = args.write
            /\ pc' = "resolve_read"
            /\ UNCHANGED <<stderr, exitCode>>
    /\ UNCHANGED <<inputs, DIALECTS_MAP, args, sql, result, calls, libOutcome,
                   stdinRead, stdout>>

\* variant: the read dialect is handed on without the registry lookup
ResolveRead_NoLookup ==
    /\ pc = "resolve_read"
    /\ pc' = "resolve_write"
    /\ UNCHANGED <<inputs, DIALECTS_MAP, args, sql, read_dialect, write_dialect,
                   result, calls, libOutcome, stdinRead, stdout, stderr, exitCode>>

\* transpile_sql: read_dialect = DIALECTS_MAP[read_dialect]
ResolveRead ==
    /\ pc = "resolve_read"
    /\ IF read_dialect = None
       THEN /\ pc' = "resolve_write"
            /\ UNCHANGED <<read_dialect, stderr, exitCode>>
       ELSE IF read_dialect \in DOMAIN DIALECTS_MAP
       THEN /\ read_dialect' = DIALECTS_MAP[read_dialect]
            /\ pc' = "resolve_write"
            /\ UNCHANGED <<stderr, exitCode>>
       ELSE /\ RaiseInTranspile([type |-> "KeyError", arg |-> <<read_dialect>>])
            /\ UNCHANGED read_dialect
    /\ UNCHANGED <<inputs, DIALECTS_MAP, args, sql, write_dialect, result, calls,
                   libOutcome, stdinRead, stdout>>

\* transpile_sql: write_dialect = DIALECTS_MAP[write_dialect]
ResolveWrite ==
    /\ pc = "resolve_write"
    /\ IF write_dialect = None
       THEN /\ pc' = "call"
            /\ UNCHANGED <<write_dialect, stderr, exitCode>>
       ELSE IF write_dialect \in DOMAIN DIALECTS_MAP
       THEN /\ write_dialect' = DIALECTS_MAP[write_dialect]
            /\ pc' = "call"
            /\ UNCHANGED <<stderr, exitCode>>
       ELSE /\ RaiseInTranspile([type |-> "KeyError", arg |-> <<write_dialect>>])
            /\ UNCHANGED write_dialect
    /\ UNCHANGED <<inputs, DIALECTS_MAP, args, sql, read_dialect, result, calls,
                   libOutcome, stdinRead, stdout>>

\* variant: pretty is left at its default
TranspileCall_DefaultPretty ==
    [sql |-> sql[1], read |-> read_dialect, write |-> write_dialect,
     identify |-> args.identify, pretty |-> FALSE, pad |-> 4, indent |-> 4]

\* the keyword arguments transpile_sql hands to sqlglot.transpile
TranspileCall ==
    [sql |-> sql[1], read |-> read_dialect, write |-> write_dialect,
     identify |-> args.identify, pretty |-> Pretty, pad |-> 4, indent |-> 4]

\* transpile_sql: result = sqlglot.transpile(...), which returns or raises
CallTranspile ==
    /\ pc = "call"
    /\ calls' = Append(calls, TranspileCall)
    /\ \E o \in LibOutcomes :
          /\ libOutcome' = o
          /\ IF o.kind = "return"
             THEN /\ result' = o.stmts
                  /\ pc' = "result"
                  /\ UNCHANGED <<stderr, exitCode>>
             ELSE /\ RaiseInTranspile([type |-> o.type, arg |-> o.arg])
                  /\ UNCHANGED result
    /\ UNCHANGED <<inputs, DIALECTS_MAP, args, sql, read_dialect, write_dialect,
                   stdinRead, stdout>>

\* transpile_sql: return result[0] or raise ValueError; main: print(result, end="")
ReturnResult ==
    /\ pc = "result"
    /\ IF result # <<>>
       THEN /\ stdout' = stdout \o PrintNoEnd(result[1])
            /\ exitCode' = 0
            /\ pc' = "done"
            /\ UNCHANGED stderr
       ELSE /\ RaiseInTranspile([type |-> "ValueError",
                                 arg |-> <<"No result from transpilation">>])
            /\ UNCHANGED stdout
    /\ UNCHANGED <<inputs, DIALECTS_MAP, args, sql, read_dialect, write_dialect,
                   result, calls, libOutcome, stdinRead>>

Next ==
    \/ ImportSqlglot
    \/ ParseArgs
    \/ NoCommand
    \/ Version
    \/ Dialects
    \/ ResolveSql
    \/ CheckSql
    \/ ResolveRead
    \/ ResolveWrite
    \/ CallTranspile
    \/ ReturnResult

Spec == Init /\ [][Next]_vars

\* ------------------------------------------------------------ properties
Done == pc = "done"

\* the text holds nothing but whitespace (the empty text included)
Blank(t) == \A i \in 1..Len(t) : t[i] \in {" ", "\t", "\n", "\r", "\f"}

SqlResolved == sql # <<>>

Tokens(t) == {t[i] : i \in 1..Len(t)}

IsKnown(d) == d \in DOMAIN Registry

Supplied(d) == d # None

StartsWith(t, p) == Len(t) >= Len(p) /\ SubSeq(t, 1, Len(p)) = p

Operation == IF args.command = "format" THEN "formatting" ELSE "transpilation"

\* C1: for transpile and format, a given --sql is the SQL text verbatim, the
\* empty and the whitespace-only value included, and standard input is read
\* only when --sql is absent (never for the other subcommands).
C1_SqlOptionVerbatim ==
    /\ (SqlResolved /\ args.sql # <<>>) => (sql = args.sql /\ ~stdinRead)
    /\ stdinRead => (args.command \in {"transpile", "format"} /\ args.sql = <<>>)

\* C2: when the resolved SQL of transpile/format is empty or only whitespace,
\* the process ends with "Error: No SQL provided" on standard error, nothing
\* on standard output and exit code 1, whatever the other options and
\* whichever source gave the text.
C2_BlankSqlRejected ==
    (Done /\ SqlResolved /\ Blank(sql[1])) =>
        /\ stderr = <<"Error: ", "No SQL provided", "\n">>
        /\ stdout = <<>>
        /\ exitCode = 1

C2_Witness ==
    /\ Done
    /\ args.command = "format"
    /\ args.sql = << <<" ", "\n">> >>
    /\ sql = args.sql
    /\ args.read = "nosuch"
    /\ stderr = <<"Error: ", "No SQL provided", "\n">>
    /\ exitCode = 1

\* C3: with non-blank SQL, a supplied --read or --write name that is not a
\* key of the registry ends the invocation with "Error: Unknown dialect:
\* <name>" on standard error and exit code 1, <name> being the offending
\* name; an absent dialect never causes this error.
C3_UnknownDialectMessage ==
    (Done /\ SqlResolved /\ ~Blank(sql[1])) =>
        /\ (Supplied(args.read) /\ ~IsKnown(args.read)) =>
              /\ stderr = <<"Error: ", "Unknown dialect: ", args.read, "\n">>
              /\ exitCode = 1
        /\ ((Supplied(args.read) => IsKnown(args.read))
            /\ Supplied(args.write) /\ ~IsKnown(args.write)) =>
              /\ stderr = <<"Error: ", "Unknown dialect: ", args.write, "\n">>
              /\ exitCode = 1
        /\ (~Supplied(args.read) /\ ~Supplied(args.write)) =>
              ~StartsWith(stderr, <<"Error: ", "Unknown dialect: ">>)

\* C4: every exception the library's transpile call raises, whatever its
\* type, is reported as "SQL <operation> failed: <original message>", the
\* operation being "formatting" exactly for format, and never as another
\* kind of error.
C4_LibraryFailureWrapped ==
    (Done /\ libOutcome.kind = "raise") =>
        /\ stderr = <<"Error: ", "SQL ", Operation, " failed: ">>
                    \o ExcStr(libOutcome) \o <<"\n">>
        /\ exitCode = 1

\* C5: when the library's transpile call returns an empty sequence, the
\* process ends with "Error: No result from transpilation" on standard
\* error, without the "SQL <operation> failed:" wording, and exit code 1.
C5_EmptyResultMessage ==
    (Done /\ libOutcome.kind = "return" /\ libOutcome.stmts = <<>>) =>
        /\ stderr = <<"Error: ", "No result from transpilation", "\n">>
        /\ exitCode = 1

\* the three exclusive outcomes of C6
SuccessOutcome ==
    /\ exitCode = 0
    /\ stderr = <<>>
    /\ stdout # PrintLine(HelpText)
    /\ ~StartsWith(stdout, <<"Error: ">>)

ErrorWritten ==
    /\ exitCode = 1
    /\ stdout = <<>>
    /\ StartsWith(stderr, <<"Error: ">>)
    /\ stderr[Len(stderr)] = "\n"

FailureOutcome ==
    /\ ErrorWritten
    /\ "\n" \notin Tokens(SubSeq(stderr, 1, Len(stderr) - 1))

HelpOutcome ==
    /\ exitCode = 1
    /\ stderr = <<>>
    /\ stdout = PrintLine(HelpText)
    /\ args.command = None

\* C6 as stated: every terminal state is a success (exit 0, the payload alone
\* on standard output), a failure (exit 1, a single "Error: <message>" line
\* on standard error alone), or the help of the no-subcommand case.
C6_ExclusiveOutcome ==
    Done => (SuccessOutcome \/ FailureOutcome \/ HelpOutcome)

\* C6 as amended: every terminal state of an invocation that the argument
\* parser did not end itself is a success (exit 0, the payload alone on
\* standard output), a failure (exit 1, nothing on standard output, and on
\* standard error exactly "Error: <message>" and the newline print adds, the
\* message possibly spanning several lines), or the help of the
\* no-subcommand case (exit 1, help alone on standard output).
C6_ExclusiveOutcomeAfterParsing ==
    (Done /\ (~libAvailable \/ argv.command \notin {"-h", "<invalid>"})) =>
        /\ (SuccessOutcome \/ ErrorWritten \/ HelpOutcome)
        /\ ErrorWritten =>
              \A i \in 2..Len(stderr) : stderr[i] # "Error: "
        /\ (exitCode = 0) =>
              (libOutcome.kind = "return" \/ args.command \in {"version", "dialects"})

C6_Witness ==
    /\ Done
    /\ libOutcome.kind = "raise"
    /\ libOutcome.type = "ParseError"
    /\ exitCode = 1
    /\ stdout = <<>>
    /\ StartsWith(stderr, <<"Error: ", "SQL ", "transpilation", " failed: ">>)

\* C7: when the library cannot be imported, every argument vector ends with
\* the install message on standard error and exit code 1 before any argument
\* parsing or dispatch, with nothing on standard output and nothing read
\* from standard input.
C7_FailFastWithoutLibrary ==
    ~libAvailable =>
        /\ pc \in {"import", "done"}
        /\ args = NoArgs
        /\ stdout = <<>>
        /\ ~stdinRead
        /\ calls = <<>>
        /\ Done =>
              /\ exitCode = 1
              /\ stderr = <<"Error: ",
                            "sqlglot package not installed. Run: python -m pip install sqlglot",
                            "\n">>

C7_Witness ==
    /\ ~libAvailable
    /\ Done
    /\ argv.command = "version"
    /\ exitCode = 1
    /\ stderr # <<>>

\* C8: on a successful transpile or format, standard output is exactly the
\* first statement the library returned, with no character added, and the
\* later statements are discarded.
C8_FirstStatementOnly ==
    (Done /\ libOutcome.kind = "return" /\ libOutcome.stmts # <<>>) =>
        /\ stdout = libOutcome.stmts[1]
        /\ stderr = <<>>
        /\ exitCode = 0

C8_Witness ==
    /\ Done
    /\ libOutcome.kind = "return"
    /\ libOutcome.stmts = << <<"SELECT 1">>, <<"SELECT 1", "\n">> >>
    /\ stdout = <<"SELECT 1">>
    /\ exitCode = 0

\* C9: transpile and format hand the library the same arguments but pretty:
\* the resolved SQL, the registry handle of each supplied dialect (None, the
\* library default, for an absent one), identify as given, pad=4 and
\* indent=4, pretty being true exactly for format.
C9_FormatIsTranspilePlusPretty ==
    \A i \in 1..Len(calls) :
        /\ calls[i].sql = sql[1]
        /\ calls[i].read = IF Supplied(args.read) THEN Registry[args.read] ELSE None
        /\ calls[i].write = IF Supplied(args.write) THEN Registry[args.write] ELSE None
        /\ calls[i].identify = args.identify
        /\ calls[i].pad = 4
        /\ calls[i].indent = 4
        /\ calls[i].pretty = (args.command = "format")

C9_Witness ==
    /\ Len(calls) = 1
    /\ args.command = "format"
    /\ args.read = "postgres"
    /\ args.write = None
    /\ args.identify
    /\ calls[1].pretty
    /\ calls[1].read = "sqlglot.dialects.postgres"
    /\ calls[1].write = None

\* C10: the checks run in the order blank SQL, read dialect, write dialect,
\* library call, and the first that fails decides the error: the library is
\* called at most once, only for transpile/format with non-blank SQL and
\* every supplied dialect resolved; with both dialects unknown the error
\* names the read dialect; blank SQL with an unknown dialect reports
\* "No SQL provided".
C10_CheckOrder ==
    /\ Len(calls) <= 1
    /\ calls # <<>> =>
          /\ args.command \in {"transpile", "format"}
          /\ SqlResolved /\ ~Blank(sql[1])
          /\ Supplied(args.read) => IsKnown(args.read)
          /\ Supplied(args.write) => IsKnown(args.write)
    /\ (Done /\ SqlResolved /\ Blank(sql[1])) =>
          stderr = <<"Error: ", "No SQL provided", "\n">>
    /\ (Done /\ SqlResolved /\ ~Blank(sql[1])
        /\ Supplied(args.read) /\ ~IsKnown(args.read)) =>
          /\ calls = <<>>
          /\ StartsWith(stderr, <<"Error: ", "Unknown dialect: ">>)
          /\ args.read \in Tokens(stderr)
          /\ args.write \notin Tokens(stderr)
    /\ (Done /\ SqlResolved /\ ~Blank(sql[1])
        /\ (Supplied(args.read) => IsKnown(args.read))
        /\ Supplied(args.write) /\ ~IsKnown(args.write)) =>
          /\ calls = <<>>
          /\ StartsWith(stderr, <<"Error: ", "Unknown dialect: ">>)
          /\ args.write \in Tokens(stderr)

C10_Witness ==
    /\ Done
    /\ SqlResolved /\ ~Blank(sql[1])
    /\ args.read = "nosuch"
    /\ args.write = "bogus"
    /\ "nosuch" \in Tokens(stderr)
    /\ calls = <<>>
====
